---- MODULE Spec2Model ----
(***************************************************************************)
(* Model of the blog's site configuration module (docusaurus.config.ts):   *)
(* the two Solarized Prism palettes, the exported SiteConfig record, the    *)
(* generator's load of that record and the palette resolver that the spec  *)
(* describes over the palettes.                                            *)
(***************************************************************************)
EXTENDS Integers, Sequences, FiniteSets, TLC

VARIABLES
  now,          \* the wall clock when the module was evaluated, in ticks since the start of BaseYear
  absent,       \* required fields deleted from the declaration (none in the repository)
  siteConfig,   \* the record the module exports in the current run
  pc,           \* the generator: "evaluated", "loaded", "built" or "failed"
  pages,        \* pages generated in the current run
  evaluations,  \* one [at, config] per evaluation of the module, oldest first
  broken,       \* the content holds a broken internal link (not so in the repository)
  last          \* the latest resolve call of the current run

vars == <<now, absent, siteConfig, pc, pages, evaluations, broken, last>>

---------------------------------------------------------------------------
(* Bounds *)

BaseYear == 2026
TicksPerYear == 2
MaxClock == 3
MaxRuns == 2
MaxPages == 1

---------------------------------------------------------------------------
(* Helpers *)

Range(s) == {s[i] : i \in 1..Len(s)}

Swap(s, i, j) == [k \in 1..Len(s) |-> IF k = i THEN s[j] ELSE IF k = j THEN s[i] ELSE s[k]]

Without(r, fields) == [f \in (DOMAIN r) \ fields |-> r[f]]

\* a number literal with one decimal place, such as 0.7
Tenths(n) == [num |-> n, den |-> 10]

IsNumber(v) == v \in [num : Int, den : {10}]

HexDigits == {"0", "1", "2", "3", "4", "5", "6", "7", "8", "9",
              "a", "b", "c", "d", "e", "f", "A", "B", "C", "D", "E", "F"}

IsHexColor(s) ==
  /\ Len(s) \in {4, 7}
  /\ SubSeq(s, 1, 1) = "#"
  /\ \A i \in 2..Len(s) : SubSeq(s, i, i) \in HexDigits

---------------------------------------------------------------------------
(* The palettes *)

\* the plain colour of the dark palette pasted into the light one
lightPlain_base0 == [color |-> "#839496", backgroundColor |-> "#eee8d5"]

lightPlain == [color |-> "#657b83", backgroundColor |-> "#eee8d5"]

lightStyles == <<
  [types |-> <<"comment", "prolog", "doctype", "cdata">>,
   style |-> [color |-> "#93a1a1", fontStyle |-> "italic"]],
  [types |-> <<"punctuation">>,
   style |-> [color |-> "#586e75"]],
  [types |-> <<"namespace">>,
   style |-> [opacity |-> Tenths(7)]],
  [types |-> <<"property", "tag", "boolean", "number", "constant", "symbol">>,
   style |-> [color |-> "#268bd2"]],
  [types |-> <<"attr-name", "string", "char", "builtin", "url">>,
   style |-> [color |-> "#2aa198"]],
  [types |-> <<"entity">>,
   style |-> [color |-> "#2aa198", cursor |-> "help"]],
  [types |-> <<"selector", "inserted">>,
   style |-> [color |-> "#859900"]],
  [types |-> <<"atrule", "attr-value", "keyword">>,
   style |-> [color |-> "#859900"]],
  [types |-> <<"function", "class-name">>,
   style |-> [color |-> "#b58900"]],
  [types |-> <<"regex", "important", "variable">>,
   style |-> [color |-> "#cb4b16"]],
  [types |-> <<"deleted">>,
   style |-> [color |-> "#dc322f"]],
  [types |-> <<"important", "bold">>,
   style |-> [fontWeight |-> "bold"]],
  [types |-> <<"italic">>,
   style |-> [fontStyle |-> "italic"]] >>

\* a digit dropped from the punctuation colour
solarizedLight_shortHex ==
  [plain |-> lightPlain, styles |-> [lightStyles EXCEPT ![2].style.color = "#586e7"]]

\* the italic entry given an attribute outside the style shape
solarizedLight_underline ==
  [plain |-> lightPlain,
   styles |-> [lightStyles EXCEPT ![13].style =
                 [fontStyle |-> "italic", textDecoration |-> "underline"]]]

\* regex listed a second time, in the ['important', 'bold'] entry
solarizedLight_regexTwice ==
  [plain |-> lightPlain,
   styles |-> [lightStyles EXCEPT ![12].types = <<"important", "bold", "regex">>]]

\* the italic entry left out of the light palette
solarizedLight_noItalic ==
  [plain |-> lightPlain, styles |-> SubSeq(lightStyles, 1, Len(lightStyles) - 1)]

\* the ['important', 'bold'] entry declared before the ['regex', 'important', 'variable'] entry
solarizedLight_boldFirst == [plain |-> lightPlain, styles |-> Swap(lightStyles, 10, 12)]

solarizedLight == [plain |-> lightPlain, styles |-> lightStyles]

darkPlain == [color |-> "#839496", backgroundColor |-> "#073642"]

darkStyles == <<
  [types |-> <<"comment", "prolog", "doctype", "cdata">>,
   style |-> [color |-> "#586e75", fontStyle |-> "italic"]],
  [types |-> <<"punctuation">>,
   style |-> [color |-> "#93a1a1"]],
  [types |-> <<"namespace">>,
   style |-> [opacity |-> Tenths(7)]],
  [types |-> <<"property", "tag", "boolean", "number", "constant", "symbol">>,
   style |-> [color |-> "#268bd2"]],
  [types |-> <<"attr-name", "string", "char", "builtin", "url">>,
   style |-> [color |-> "#2aa198"]],
  [types |-> <<"entity">>,
   style |-> [color |-> "#2aa198", cursor |-> "help"]],
  [types |-> <<"selector", "inserted">>,
   style |-> [color |-> "#859900"]],
  [types |-> <<"atrule", "attr-value", "keyword">>,
   style |-> [color |-> "#859900"]],
  [types |-> <<"function", "class-name">>,
   style |-> [color |-> "#b58900"]],
  [types |-> <<"regex", "important", "variable">>,
   style |-> [color |-> "#cb4b16"]],
  [types |-> <<"deleted">>,
   style |-> [color |-> "#dc322f"]],
  [types |-> <<"important", "bold">>,
   style |-> [fontWeight |-> "bold"]],
  [types |-> <<"italic">>,
   style |-> [fontStyle |-> "italic"]] >>

\* the keyword entry given the colour of the function entry
solarizedDark_keywordYellow ==
  [plain |-> darkPlain, styles |-> [darkStyles EXCEPT ![8].style.color = "#b58900"]]

\* the last entry (italic) left out of the dark palette
solarizedDark_noItalic ==
  [plain |-> darkPlain, styles |-> SubSeq(darkStyles, 1, Len(darkStyles) - 1)]

solarizedDark == [plain |-> darkPlain, styles |-> darkStyles]

---------------------------------------------------------------------------
(* The site configuration *)

\* the clock value itself in place of its year, as new Date().getTime() would give
getFullYear_getTime(t) == BaseYear + t

\* new Date().getFullYear() at clock value t
getFullYear(t) == BaseYear + (t \div TicksPerYear)

copyright(t) ==
  "Copyright © " \o ToString(getFullYear(t)) \o " Alex Hart. Built with Docusaurus."

navbarItems == <<
  [to |-> "/", label |-> "Blog", position |-> "left"],
  [href |-> "https://github.com/exallium", label |-> "GitHub", position |-> "right"],
  [href |-> "https://androiddev.social/@exallium", label |-> "Mastodon",
   position |-> "right"] >>

\* the Blog entry given an href next to its route
navbar_bothTargets ==
  [title |-> "Alex Hart",
   items |-> [navbarItems EXCEPT ![1] =
                [to |-> "/", href |-> "https://github.com/exallium",
                 label |-> "Blog", position |-> "left"]]]

\* the Mastodon entry pointing at another instance than the footer link does
navbar_otherMastodon ==
  [title |-> "Alex Hart",
   items |-> [navbarItems EXCEPT ![3].href = "https://mastodon.social/@exallium"]]

\* the navbar title left at the template's
navbar_templateTitle == [title |-> "My Site", items |-> navbarItems]

navbar == [title |-> "Alex Hart", items |-> navbarItems]

footer(t) == [
  style |-> "light",
  links |-> <<
    [title |-> "Connect",
     items |-> <<
       [label |-> "GitHub", href |-> "https://github.com/exallium"],
       [label |-> "Mastodon", href |-> "https://androiddev.social/@exallium"] >>] >>,
  copyright |-> copyright(t) ]

\* the blog left at the generator's default route
blog_defaultRoute == [
  routeBasePath |-> "blog",
  showReadingTime |-> TRUE,
  feedOptions |-> [type |-> <<"rss", "atom">>, xslt |-> TRUE],
  blogSidebarTitle |-> "Recent Posts",
  blogSidebarCount |-> 10,
  onInlineTags |-> "warn",
  onInlineAuthors |-> "warn",
  onUntruncatedBlogPosts |-> "warn"]

blog == [
  routeBasePath |-> "/",
  showReadingTime |-> TRUE,
  feedOptions |-> [type |-> <<"rss", "atom">>, xslt |-> TRUE],
  blogSidebarTitle |-> "Recent Posts",
  blogSidebarCount |-> 10,
  onInlineTags |-> "warn",
  onInlineAuthors |-> "warn",
  onUntruncatedBlogPosts |-> "warn"]

presets == <<
  <<"classic",
    [docs |-> FALSE,
     blog |-> blog,
     theme |-> [customCss |-> "./src/css/custom.css"]]>> >>

\* a locale list that leaves out the default locale
i18n_withoutDefault == [defaultLocale |-> "en", locales |-> <<"fr">>]

i18n == [defaultLocale |-> "en", locales |-> <<"en">>]

\* the policy left at warn, which reports broken links and completes the build
onBrokenLinks_warn == "warn"

onBrokenLinks == "throw"

\* the two palettes registered the wrong way round
prism_swapped == [theme |-> solarizedDark, darkTheme |-> solarizedLight]

prism == [theme |-> solarizedLight, darkTheme |-> solarizedDark]

\* the object literal the module evaluates to at clock value t
config(t) == [
  title |-> "Alex Hart",
  tagline |-> "Android Developer",
  favicon |-> "img/favicon.ico",
  future |-> [v4 |-> TRUE],
  url |-> "https://your-docusaurus-site.example.com",
  baseUrl |-> "/",
  onBrokenLinks |-> onBrokenLinks,
  i18n |-> i18n,
  presets |-> presets,
  themeConfig |-> [
    colorMode |-> [respectPrefersColorScheme |-> TRUE],
    navbar |-> navbar,
    footer |-> footer(t),
    prism |-> prism] ]

---------------------------------------------------------------------------
(* The generator's load of the configuration *)

RequiredFields == {"title", "url", "baseUrl"}

\* a validation that forgets baseUrl
validateConfig_noBaseUrl(c) == \A f \in {"title", "url"} : f \in DOMAIN c

\* the generator's validation of the exported record
validateConfig(c) == \A f \in RequiredFields : f \in DOMAIN c

---------------------------------------------------------------------------
(* The palette resolver *)

Modes == {"light", "dark"}

\* the palette the colour mode selects
themeOf(c, mode) ==
  IF mode = "light" THEN c.themeConfig.prism.theme ELSE c.themeConfig.prism.darkTheme

\* positions of the entries whose types contain the category
matching(theme, category) ==
  {i \in 1..Len(theme.styles) : category \in Range(theme.styles[i].types)}

resolve(theme, category) ==
  LET m == matching(theme, category)
  IN  IF m = {}
      THEN [threw |-> FALSE, style |-> theme.plain]
      ELSE [threw |-> FALSE,
            style |-> theme.styles[CHOOSE i \in m : \A j \in m : i <= j].style]

typesOf(theme) == UNION {Range(theme.styles[i].types) : i \in 1..Len(theme.styles)}

KnownCategories == typesOf(solarizedLight) \cup typesOf(solarizedDark)

UnknownCategories == {"totally-unknown-category", "operator"}

Categories == KnownCategories \cup UnknownCategories

NoCall == [category |-> "", mode |-> "", threw |-> FALSE, style |-> [color |-> ""]]

---------------------------------------------------------------------------
(* The state machine *)

Init ==
  /\ now = 0
  /\ absent = {}
  /\ siteConfig = Without(config(now), absent)
  /\ pc = "evaluated"
  /\ pages = 0
  /\ evaluations = <<[at |-> now, config |-> siteConfig]>>
  /\ broken = FALSE
  /\ last = NoCall

\* the same, for a declaration from which required fields were deleted
InitCandidates ==
  /\ now = 0
  /\ absent \in SUBSET RequiredFields
  /\ siteConfig = Without(config(now), absent)
  /\ pc = "evaluated"
  /\ pages = 0
  /\ evaluations = <<[at |-> now, config |-> siteConfig]>>
  /\ broken = FALSE
  /\ last = NoCall

\* the same, for content that may hold a broken internal link
InitBrokenLinks ==
  /\ now = 0
  /\ absent = {}
  /\ siteConfig = Without(config(now), absent)
  /\ pc = "evaluated"
  /\ pages = 0
  /\ evaluations = <<[at |-> now, config |-> siteConfig]>>
  /\ broken \in BOOLEAN
  /\ last = NoCall

Load ==
  /\ pc = "evaluated"
  /\ pc' = IF validateConfig(siteConfig) THEN "loaded" ELSE "failed"
  /\ UNCHANGED <<now, absent, siteConfig, pages, evaluations, broken, last>>

\* a resolver that moves the entry it matched to the front of the palette
Resolve_moveToFront(category, mode) ==
  /\ pc = "loaded"
  /\ LET theme == themeOf(siteConfig, mode)
         r == resolve(theme, category)
         m == matching(theme, category)
         key == IF mode = "light" THEN "theme" ELSE "darkTheme"
     IN  /\ last' = [category |-> category, mode |-> mode,
                     threw |-> r.threw, style |-> r.style]
         /\ siteConfig' =
              IF m = {} THEN siteConfig
              ELSE LET i == CHOOSE i \in m : \A j \in m : i <= j
                   IN  [siteConfig EXCEPT !.themeConfig.prism[key].styles =
                          <<@[i]>> \o SubSeq(@, 1, i - 1) \o SubSeq(@, i + 1, Len(@))]
  /\ UNCHANGED <<now, absent, pc, pages, evaluations, broken>>

Resolve(category, mode) ==
  /\ pc = "loaded"
  /\ LET r == resolve(themeOf(siteConfig, mode), category)
     IN  last' = [category |-> category, mode |-> mode,
                  threw |-> r.threw, style |-> r.style]
  /\ UNCHANGED <<now, absent, siteConfig, pc, pages, evaluations, broken>>

GeneratePage ==
  /\ pc = "loaded"
  /\ pages < MaxPages
  /\ pages' = pages + 1
  /\ UNCHANGED <<now, absent, siteConfig, pc, evaluations, broken, last>>

BrokenLinkPolicies == {"ignore", "warn", "throw"}

\* the end of the build, where the generator applies the broken-link policy
Build ==
  /\ pc = "loaded"
  /\ pc' = IF broken /\ siteConfig.onBrokenLinks = "throw" THEN "failed" ELSE "built"
  /\ UNCHANGED <<now, absent, siteConfig, pages, evaluations, broken, last>>

\* the process ends; at a later time t a new generation run evaluates the module again
NewRun(t) ==
  /\ pc \in {"loaded", "built", "failed"}
  /\ Len(evaluations) < MaxRuns
  /\ now' = t
  /\ siteConfig' = Without(config(t), absent)
  /\ evaluations' = Append(evaluations, [at |-> t, config |-> siteConfig'])
  /\ pc' = "evaluated"
  /\ pages' = 0
  /\ last' = NoCall
  /\ UNCHANGED <<absent, broken>>

Next ==
  \/ Load
  \/ \E category \in Categories, mode \in Modes : Resolve(category, mode)
  \/ GeneratePage
  \/ Build
  \/ \E t \in now..MaxClock : NewRun(t)

Spec == Init /\ [][Next]_vars

SpecCandidates == InitCandidates /\ [][Next]_vars

SpecBrokenLinks == InitBrokenLinks /\ [][Next]_vars

TypeOK ==
  /\ now \in 0..MaxClock
  /\ absent \subseteq RequiredFields
  /\ pc \in {"evaluated", "loaded", "built", "failed"}
  /\ broken \in BOOLEAN
  /\ pages \in 0..MaxPages
  /\ Len(evaluations) \in 1..MaxRuns
  /\ last.mode \in Modes \cup {""}

---------------------------------------------------------------------------
(* Palette resolution *)

entriesOf(theme) == 1..Len(theme.styles)

\* the entries of a palette that hold the category, in declaration order
holders(theme, category) ==
  {i \in entriesOf(theme) : \E k \in 1..Len(theme.styles[i].types) :
                               theme.styles[i].types[k] = category}

StyleAttributes == {"fontStyle", "fontWeight", "opacity"}

\* C1: a category held by several entries resolves to exactly the style of the
\* first of them in declaration order, with no attribute of a later one; the
\* "important" category resolves to {color: "#cb4b16"} without fontWeight.
C1_FirstMatchWins ==
  /\ \A mode \in Modes :
       LET theme == themeOf(evaluations[Len(evaluations)].config, mode)
           h == holders(theme, last.category)
       IN  (last.mode = mode /\ Cardinality(h) > 1) =>
             \E i \in h :
               /\ \A j \in h : i <= j
               /\ last.style = theme.styles[i].style
               /\ \A j \in h \ {i} :
                    \A a \in DOMAIN theme.styles[j].style :
                      a \in DOMAIN last.style => a \in DOMAIN theme.styles[i].style
  /\ last.category = "important" =>
       /\ last.style = [color |-> "#cb4b16"]
       /\ "fontWeight" \notin DOMAIN last.style

C1_Witness ==
  /\ last.category = "important"
  /\ last.mode = "light"
  /\ Cardinality(holders(themeOf(siteConfig, "light"), "important")) = 2
  /\ last.style = [color |-> "#cb4b16"]

\* C2: a non-empty category held by no entry of the mode's palette resolves
\* without error to that palette's plain colours, with no fontStyle, fontWeight
\* or opacity; in light mode the colour is "#657b83".
C2_UnknownFallsBackToPlain ==
  \A mode \in Modes :
    LET theme == themeOf(evaluations[Len(evaluations)].config, mode)
    IN  (last.category # "" /\ last.mode = mode /\ holders(theme, last.category) = {}) =>
          /\ ~last.threw
          /\ last.style = theme.plain
          /\ DOMAIN last.style \cap StyleAttributes = {}
          /\ mode = "light" => last.style.color = "#657b83"

C2_Witness ==
  /\ last.category = "totally-unknown-category"
  /\ last.mode = "light"
  /\ ~last.threw
  /\ last.style.color = "#657b83"

\* C4: the keyword category resolves to exactly {color: "#859900"} in light
\* mode and in dark mode.
C4_KeywordSameInBothModes ==
  /\ last.category = "keyword" => last.style = [color |-> "#859900"]
  /\ pc = "loaded" =>
       resolve(themeOf(siteConfig, "light"), "keyword")
         = resolve(themeOf(siteConfig, "dark"), "keyword")

C4_Witness ==
  /\ last.category = "keyword"
  /\ last.mode = "dark"
  /\ last.style = [color |-> "#859900"]

---------------------------------------------------------------------------
(* The palette tables *)

palettesOf(c) == {c.themeConfig.prism.theme, c.themeConfig.prism.darkTheme}

\* C5: a category occurs in some entry of the light palette exactly when it
\* occurs in some entry of the dark palette.
C5_PalettesCoverSameCategories ==
  LET light == themeOf(siteConfig, "light")
      dark == themeOf(siteConfig, "dark")
  IN  /\ \A c \in typesOf(light) : holders(dark, c) # {}
      /\ \A c \in typesOf(dark) : holders(light, c) # {}

C5_Witness ==
  /\ pc = "loaded"
  /\ last.category = "italic"
  /\ holders(themeOf(siteConfig, "light"), "italic") # {}
  /\ holders(themeOf(siteConfig, "dark"), "italic") # {}


ColorlessEntries == {<<"namespace">>, <<"important", "bold">>, <<"italic">>}

TokenStyleAttributes == {"color", "fontStyle", "fontWeight", "opacity"}

---------------------------------------------------------------------------
(* Purity of the resolver *)

constructed == evaluations[Len(evaluations)].config

\* C6: every resolve call returns what the resolver yields for its (category,
\* mode) pair on the palettes as constructed, whatever calls came before it, so
\* two calls with the same pair return identical results.
C6_ResolveDeterministic ==
  last.category # "" =>
    [threw |-> last.threw, style |-> last.style]
      = resolve(themeOf(constructed, last.mode), last.category)

C6_Witness ==
  /\ last.category = "bold"
  /\ last.mode = "dark"
  /\ last.style = [fontWeight |-> "bold"]
  /\ pages = MaxPages

\* C10: after any sequence of resolve calls the exported record, with both
\* palettes in it, is the one that was constructed.
C10_ResolveChangesNothing ==
  /\ siteConfig = constructed
  /\ last.category # "" =>
       /\ siteConfig.themeConfig.prism.theme = solarizedLight
       /\ siteConfig.themeConfig.prism.darkTheme = solarizedDark
       /\ siteConfig = config(now)

C10_Witness ==
  /\ last.category = "regex"
  /\ last.mode = "light"
  /\ siteConfig.themeConfig.prism.theme.styles[10].types[1] = "regex"
  /\ Len(evaluations) = MaxRuns

---------------------------------------------------------------------------
(* Construction of the SiteConfig *)

\* C8: a record that lacks title, url or baseUrl is never loaded: its run ends
\* failed, with no page generated and no token resolved.
C8_ConstructionFailsFast ==
  /\ pc = "evaluated" => (pages = 0 /\ last = NoCall)
  /\ (pc # "evaluated" /\ ~(RequiredFields \subseteq DOMAIN siteConfig)) =>
       (pc = "failed" /\ pages = 0 /\ last = NoCall)
  /\ (pc = "loaded" \/ pages > 0 \/ last # NoCall) =>
       RequiredFields \subseteq DOMAIN siteConfig

C8_Witness ==
  /\ pc = "failed"
  /\ absent = {"baseUrl"}
  /\ "baseUrl" \notin DOMAIN siteConfig
  /\ pages = 0

withoutCopyright(c) == [c EXCEPT !.themeConfig.footer.copyright = ""]

\* C9 as stated: any two evaluations of the module yield records that are
\* identical in every field.
C9_EvaluationsIdentical ==
  \A i, j \in 1..Len(evaluations) : evaluations[i].config = evaluations[j].config

\* C9 as amended: any two evaluations of the module yield records that are
\* identical in every field except the footer copyright text, which holds the
\* year of the evaluation; two evaluations in the same calendar year yield
\* identical records.
C9_EvaluationsDifferOnlyInYear ==
  \A i, j \in 1..Len(evaluations) :
    LET a == evaluations[i]
        b == evaluations[j]
    IN  /\ withoutCopyright(a.config) = withoutCopyright(b.config)
        /\ (a.at \div TicksPerYear = b.at \div TicksPerYear) => a.config = b.config
        /\ a.config.themeConfig.footer.copyright
             = "Copyright © " \o ToString(BaseYear + (a.at \div TicksPerYear))
                 \o " Alex Hart. Built with Docusaurus."

C9_Witness ==
  /\ Len(evaluations) = 2
  /\ evaluations[1].at \div TicksPerYear # evaluations[2].at \div TicksPerYear
  /\ evaluations[1].config # evaluations[2].config


---------------------------------------------------------------------------
(* The broken-link policy *)

\* C11: the broken-link policy is one of ignore, warn, throw and is throw, and
\* a run whose content holds a broken internal link ends failed, never built.
C11_BrokenLinkFailsBuild ==
  /\ siteConfig.onBrokenLinks \in BrokenLinkPolicies
  /\ siteConfig.onBrokenLinks = "throw"
  /\ broken => pc # "built"
  /\ (broken /\ pc \notin {"evaluated", "loaded"}) => pc = "failed"

C11_Witness ==
  /\ broken
  /\ pc = "failed"
  /\ pages = MaxPages
  /\ siteConfig.onBrokenLinks = "throw"


---------------------------------------------------------------------------
(* Selection of the palette by the colour mode *)

returned == [threw |-> last.threw, style |-> last.style]

emptyPalette == [plain |-> [color |-> "", backgroundColor |-> ""], styles |-> <<>>]

\* C12: the light palette is registered as the highlighter's theme and the
\* dark palette as its darkTheme; a light call returns what the light palette
\* alone yields and a dark call what the dark palette alone yields, whatever
\* the other palette holds. "comment" resolves to {color: "#93a1a1", fontStyle:
\* italic} in light mode and {color: "#586e75", fontStyle: italic} in dark
\* mode, and an unknown category resolves in dark mode to colour "#839496" on
\* background "#073642".
C12_ModeSelectsPalette ==
  /\ siteConfig.themeConfig.prism.theme = solarizedLight
  /\ siteConfig.themeConfig.prism.darkTheme = solarizedDark
  /\ last.mode = "light" =>
       /\ returned = resolve(solarizedLight, last.category)
       /\ returned = resolve(themeOf([siteConfig EXCEPT
                         !.themeConfig.prism.darkTheme = emptyPalette], "light"),
                       last.category)
       /\ last.category = "comment" =>
            last.style = [color |-> "#93a1a1", fontStyle |-> "italic"]
  /\ last.mode = "dark" =>
       /\ returned = resolve(solarizedDark, last.category)
       /\ returned = resolve(themeOf([siteConfig EXCEPT
                         !.themeConfig.prism.theme = emptyPalette], "dark"),
                       last.category)
       /\ last.category = "comment" =>
            last.style = [color |-> "#586e75", fontStyle |-> "italic"]
       /\ last.category \in UnknownCategories =>
            last.style = [color |-> "#839496", backgroundColor |-> "#073642"]

C12_Witness ==
  /\ last.category = "comment"
  /\ last.mode = "dark"
  /\ last.style = [color |-> "#586e75", fontStyle |-> "italic"]


---------------------------------------------------------------------------
(* Navigation *)

Targets == {"to", "href"}

\* C14: every navbar entry has a non-empty label, exactly one of the targets
\* to and href, and a position that is left or right; every footer link group
\* has a title and every footer link has a non-empty label and a target.
C14_NavigationWellFormed ==
  LET items == siteConfig.themeConfig.navbar.items
      groups == siteConfig.themeConfig.footer.links
  IN  /\ \A i \in 1..Len(items) :
           /\ "label" \in DOMAIN items[i]
           /\ Len(items[i].label) > 0
           /\ Cardinality(Targets \cap DOMAIN items[i]) = 1
           /\ \A k \in Targets \cap DOMAIN items[i] : Len(items[i][k]) > 0
           /\ "position" \in DOMAIN items[i]
           /\ items[i].position \in {"left", "right"}
      /\ \A g \in 1..Len(groups) :
           /\ "title" \in DOMAIN groups[g]
           /\ \A i \in 1..Len(groups[g].items) :
                /\ "label" \in DOMAIN groups[g].items[i]
                /\ Len(groups[g].items[i].label) > 0
                /\ Targets \cap DOMAIN groups[g].items[i] # {}

C14_Witness ==
  /\ pc = "built"
  /\ "to" \in DOMAIN siteConfig.themeConfig.navbar.items[1]
  /\ "href" \in DOMAIN siteConfig.themeConfig.navbar.items[2]
  /\ Len(siteConfig.themeConfig.footer.links[1].items) = 2


---------------------------------------------------------------------------
(* The content sources *)

presetOptions(c) == c.presets[1][2]

\* C15: the blog's route base path equals the site base path "/", the docs
\* content source is disabled, the internal navbar entry labelled Blog targets
\* that route, and the feed types include both rss and atom.
C15_BlogIsHomeRoute ==
  LET options == presetOptions(siteConfig)
      items == siteConfig.themeConfig.navbar.items
      blogItems == {i \in 1..Len(items) : items[i].label = "Blog"}
  IN  /\ options.blog.routeBasePath = siteConfig.baseUrl
      /\ siteConfig.baseUrl = "/"
      /\ options.docs = FALSE
      /\ blogItems # {}
      /\ \A i \in blogItems :
           /\ "to" \in DOMAIN items[i]
           /\ items[i].to = options.blog.routeBasePath
      /\ {"rss", "atom"} \subseteq Range(options.blog.feedOptions.type)

C15_Witness ==
  /\ pc = "loaded"
  /\ pages = MaxPages
  /\ siteConfig.presets[1][1] = "classic"
  /\ presetOptions(siteConfig).blog.routeBasePath = "/"


---------------------------------------------------------------------------
(* The blog posts *)

\* the lines between the two --- lines at the head of each post file
dissectingABadClassDeclaration == <<
  "slug: dissecting-a-bad-class-declaration",
  "title: Dissecting a bad class declaration",
  "authors: [alex]" >>

howToFillKnowledgeGaps == <<
  "slug: how-to-fill-knowledge-gaps",
  "title: How to fill knowledge gaps",
  "authors: [alex]" >>

testDrivenDevelopmentForBeginners == <<
  "slug: test-driven-development-for-beginners",
  "title: Test Driven Development for Beginners",
  "authors: [alex]" >>

disposabilityTestabilityReadability == <<
  "slug: disposability-testability-readability",
  "title: Disposability, testability, readability",
  "authors: [alex]" >>

basicGradleVersionCatalogs == <<
  "slug: basic-gradle-version-catalogs",
  "title: Getting started with Gradle Version Catalogs",
  "authors: [alex]",
  "unlisted: true" >>

\* the last post written as a copy of the fourth, its slug line left unchanged
posts_copiedSlug == <<
  dissectingABadClassDeclaration,
  howToFillKnowledgeGaps,
  testDrivenDevelopmentForBeginners,
  disposabilityTestabilityReadability,
  [basicGradleVersionCatalogs EXCEPT ![1] = disposabilityTestabilityReadability[1]] >>

posts == <<
  dissectingABadClassDeclaration,
  howToFillKnowledgeGaps,
  testDrivenDevelopmentForBeginners,
  disposabilityTestabilityReadability,
  basicGradleVersionCatalogs >>

\* the position of the first occurrence of character ch in s, or 0
indexOf(s, ch) ==
  LET found == {i \in 1..Len(s) : SubSeq(s, i, i) = ch}
  IN  IF found = {} THEN 0 ELSE CHOOSE i \in found : \A j \in found : i <= j

RECURSIVE trimStart(_)
trimStart(s) ==
  IF Len(s) > 0 /\ SubSeq(s, 1, 1) = " " THEN trimStart(SubSeq(s, 2, Len(s))) ELSE s

\* a "key: value" line of a front-matter block
parseLine(line) ==
  LET colon == indexOf(line, ":")
  IN  IF colon = 0
      THEN [key |-> line, value |-> ""]
      ELSE [key |-> SubSeq(line, 1, colon - 1),
            value |-> trimStart(SubSeq(line, colon + 1, Len(line)))]

\* the front matter as a record from its keys to their raw values
parseFrontMatter(lines) ==
  LET parsed == [i \in 1..Len(lines) |-> parseLine(lines[i])]
      keys == {parsed[i].key : i \in 1..Len(parsed)}
  IN  [k \in keys |->
         parsed[CHOOSE i \in 1..Len(parsed) : parsed[i].key = k].value]

RECURSIVE splitCommas(_)
splitCommas(s) ==
  LET comma == indexOf(s, ",")
  IN  IF comma = 0
      THEN <<trimStart(s)>>
      ELSE <<trimStart(SubSeq(s, 1, comma - 1))>>
             \o splitCommas(SubSeq(s, comma + 1, Len(s)))

\* the items of a flow list such as [alex]
parseList(value) ==
  IF Len(value) >= 2 /\ SubSeq(value, 1, 1) = "[" /\ SubSeq(value, Len(value), Len(value)) = "]"
  THEN IF Len(value) = 2 THEN <<>> ELSE splitCommas(SubSeq(value, 2, Len(value) - 1))
  ELSE IF value = "" THEN <<>> ELSE <<value>>

\* the route of a post under the blog's base path
routeOf(c, lines) == presetOptions(c).blog.routeBasePath \o parseFrontMatter(lines).slug

FrontMatterKeys == {"slug", "title", "authors", "unlisted"}

\* C16: every post's front matter has a non-empty slug, a non-empty title and
\* a non-empty authors list and no key other than slug, title, authors and
\* unlisted; the slugs are pairwise distinct, and so are the posts' routes.
C16_FrontMatterWellFormed ==
  /\ \A p \in 1..Len(posts) :
       LET fm == parseFrontMatter(posts[p])
       IN  /\ Len(posts[p]) = Cardinality(DOMAIN fm)
           /\ {"slug", "title", "authors"} \subseteq DOMAIN fm
           /\ DOMAIN fm \subseteq FrontMatterKeys
           /\ Len(fm.slug) > 0
           /\ Len(fm.title) > 0
           /\ Len(parseList(fm.authors)) > 0
           /\ \A a \in 1..Len(parseList(fm.authors)) : Len(parseList(fm.authors)[a]) > 0
  /\ \A p, q \in 1..Len(posts) :
       p # q =>
         /\ parseFrontMatter(posts[p]).slug # parseFrontMatter(posts[q]).slug
         /\ routeOf(siteConfig, posts[p]) # routeOf(siteConfig, posts[q])

C16_Witness ==
  /\ pc = "built"
  /\ pages = MaxPages
  /\ Len(posts) = 5
  /\ "unlisted" \in DOMAIN parseFrontMatter(posts[5])
  /\ routeOf(siteConfig, posts[1]) = "/dissecting-a-bad-class-declaration"
  /\ parseList(parseFrontMatter(posts[4]).authors) = <<"alex">>


---------------------------------------------------------------------------
(* Dependence on the declaration order *)

\* the palette with its entries i and j exchanged
swapped(theme, i, j) == [theme EXCEPT !.styles = Swap(theme.styles, i, j)]

\* the palette with its entries in the opposite order
reversed(theme) ==
  [theme EXCEPT !.styles = [k \in 1..Len(theme.styles) |->
                              theme.styles[Len(theme.styles) + 1 - k]]]

\* C17: in each palette "important" is held by more than one entry and every
\* other category by exactly one; a call for any other category returns the
\* same under every exchange of two entries and under the reversed order,
\* while the result for "important" changes under some exchange.
C17_OnlyImportantDependsOnOrder ==
  \A mode \in Modes :
    LET theme == themeOf(siteConfig, mode)
    IN  /\ Cardinality(holders(theme, "important")) > 1
        /\ \A c \in typesOf(theme) \ {"important"} : Cardinality(holders(theme, c)) = 1
        /\ (last.mode = mode /\ last.category # "important") =>
             /\ \A i, j \in entriesOf(theme) :
                  resolve(swapped(theme, i, j), last.category) = returned
             /\ resolve(reversed(theme), last.category) = returned
        /\ \E i, j \in entriesOf(theme) :
             resolve(swapped(theme, i, j), "important") # resolve(theme, "important")

C17_Witness ==
  /\ last.category = "variable"
  /\ last.mode = "light"
  /\ last.style = [color |-> "#cb4b16"]
  /\ resolve(swapped(themeOf(siteConfig, "light"), 10, 12), "important").style
       = [fontWeight |-> "bold"]


---------------------------------------------------------------------------
(* The two palettes side by side *)

ModeDependentEntries == {<<"comment", "prolog", "doctype", "cdata">>, <<"punctuation">>}

ModeDependentCategories == UNION {Range(types) : types \in ModeDependentEntries}

\* C18: the palettes have equally many entries, with equal category lists at
\* equal positions; the styles at equal positions are equal, except those of
\* the comment/prolog/doctype/cdata entry and of the punctuation entry, which
\* differ in color and in nothing else. A call for a category of any other
\* entry returns what the other mode's palette yields for it.
C18_PalettesAlignEntryByEntry ==
  LET light == themeOf(siteConfig, "light")
      dark == themeOf(siteConfig, "dark")
  IN  /\ Len(light.styles) = Len(dark.styles)
      /\ \A i \in entriesOf(light) :
           /\ light.styles[i].types = dark.styles[i].types
           /\ IF light.styles[i].types \in ModeDependentEntries
              THEN /\ light.styles[i].style.color # dark.styles[i].style.color
                   /\ [light.styles[i].style EXCEPT !.color = ""]
                        = [dark.styles[i].style EXCEPT !.color = ""]
              ELSE light.styles[i].style = dark.styles[i].style
      /\ (last.category \in typesOf(light) \ ModeDependentCategories) =>
           /\ returned = resolve(light, last.category)
           /\ returned = resolve(dark, last.category)

C18_Witness ==
  /\ last.category = "string"
  /\ last.mode = "dark"
  /\ last.style = [color |-> "#2aa198"]
  /\ themeOf(siteConfig, "light").styles[2].style.color = "#586e75"
  /\ themeOf(siteConfig, "dark").styles[2].style.color = "#93a1a1"

---------------------------------------------------------------------------
(* Entries without a color *)

\* C19: a call for a category held by some entry of the mode's palette returns
\* the style of an entry and not the plain colours, also when that style has no
\* color: namespace resolves to {opacity: 0.7}, bold to {fontWeight: bold} and
\* italic to {fontStyle: italic}; the plain colours are returned exactly for
\* the categories held by no entry.
C19_FallbackOnlyForUnknown ==
  \A mode \in Modes :
    LET theme == themeOf(siteConfig, mode)
        h == holders(theme, last.category)
    IN  (last.category # "" /\ last.mode = mode) =>
          /\ (last.style = theme.plain) <=> (h = {})
          /\ h # {} => \E i \in h : last.style = theme.styles[i].style
          /\ last.category \in typesOf(solarizedLight) => h # {}
          /\ last.category = "namespace" => last.style = [opacity |-> Tenths(7)]
          /\ last.category = "bold" => last.style = [fontWeight |-> "bold"]
          /\ last.category = "italic" => last.style = [fontStyle |-> "italic"]

C19_Witness ==
  /\ last.category = "namespace"
  /\ last.mode = "light"
  /\ "color" \notin DOMAIN last.style
  /\ last.style = [opacity |-> Tenths(7)]

---------------------------------------------------------------------------
(* The declared record *)

\* C20: the exported record has a non-empty title, url and baseUrl and passes
\* the required-field validation; baseUrl begins and ends with "/"; the navbar
\* title equals the site title.
C20_DeclaredConfigIsValid ==
  /\ \A f \in {"title", "url", "baseUrl"} :
       /\ f \in DOMAIN siteConfig
       /\ Len(siteConfig[f]) > 0
  /\ validateConfig(siteConfig)
  /\ pc # "evaluated" => pc \in {"loaded", "built"}
  /\ SubSeq(siteConfig.baseUrl, 1, 1) = "/"
  /\ SubSeq(siteConfig.baseUrl, Len(siteConfig.baseUrl), Len(siteConfig.baseUrl)) = "/"
  /\ siteConfig.themeConfig.navbar.title = siteConfig.title

C20_Witness ==
  /\ pc = "loaded"
  /\ last = NoCall
  /\ pages = 0
  /\ siteConfig.title = "Alex Hart"
  /\ siteConfig.themeConfig.navbar.title = "Alex Hart"


---------------------------------------------------------------------------
(* Locales *)

\* C21: the locale list is non-empty, has no duplicates and contains the
\* default locale.
C21_LocalesHoldDefault ==
  LET locales == siteConfig.i18n.locales
  IN  /\ Len(locales) > 0
      /\ \A i, j \in 1..Len(locales) : locales[i] = locales[j] => i = j
      /\ \E i \in 1..Len(locales) : locales[i] = siteConfig.i18n.defaultLocale

C21_Witness ==
  /\ pc = "loaded"
  /\ siteConfig.i18n.defaultLocale = "en"
  /\ siteConfig.i18n.locales = <<"en">>

---------------------------------------------------------------------------
(* Footer links and navbar entries *)

footerLinks(c) ==
  UNION {Range(c.themeConfig.footer.links[g].items) :
           g \in 1..Len(c.themeConfig.footer.links)}

externalNavbarItems(c) ==
  {item \in Range(c.themeConfig.navbar.items) : "href" \in DOMAIN item}

\* C22: for every link of every footer link group there is a navbar entry with
\* the same label and the same href, and every navbar entry with an href has a
\* footer link with that label and href.
C22_FooterMirrorsNavbar ==
  /\ \A link \in footerLinks(siteConfig) :
       /\ "href" \in DOMAIN link
       /\ \E item \in externalNavbarItems(siteConfig) :
            item.label = link.label /\ item.href = link.href
  /\ \A item \in externalNavbarItems(siteConfig) :
       \E link \in footerLinks(siteConfig) :
         link.label = item.label /\ link.href = item.href

C22_Witness ==
  /\ pc = "built"
  /\ Cardinality(footerLinks(siteConfig)) = 2
  /\ Cardinality(externalNavbarItems(siteConfig)) = 2
  /\ {link.label : link \in footerLinks(siteConfig)} = {"GitHub", "Mastodon"}

---------------------------------------------------------------------------
(* The plain colours *)

\* C23: in each palette the plain colour and the plain background are valid
\* hex colours and differ from each other; the light palette's plain colour
\* differs from the dark palette's, and so does its plain background.
C23_PlainColoursDistinct ==
  LET light == themeOf(siteConfig, "light").plain
      dark == themeOf(siteConfig, "dark").plain
  IN  /\ \A plain \in {light, dark} :
           /\ IsHexColor(plain.color)
           /\ IsHexColor(plain.backgroundColor)
           /\ plain.color # plain.backgroundColor
      /\ light.color # dark.color
      /\ light.backgroundColor # dark.backgroundColor

C23_Witness ==
  /\ pc = "loaded"
  /\ last.category = "operator"
  /\ themeOf(siteConfig, "light").plain = [color |-> "#657b83", backgroundColor |-> "#eee8d5"]
  /\ themeOf(siteConfig, "dark").plain = [color |-> "#839496", backgroundColor |-> "#073642"]

====
